---- MODULE Spec2Model ----
(***************************************************************************)
(* baker.py: command registration (Baker.command), the dispatcher          *)
(* (Baker.parse), the argument tokenizer (Baker.parse_args), the argument  *)
(* reconciler (Baker.apply) and the type coercer (totype), as Baker.run    *)
(* with main=False and Baker.test drive them.                              *)
(*                                                                         *)
(* A Python string is a sequence of one-character strings, so that         *)
(* startswith, split, strip, slicing and int() are computed and not        *)
(* assumed.  A Python value is a record tagged with its type.              *)
(***************************************************************************)
EXTENDS Integers, Sequences, FiniteSets, TLC

\* Most tokens a scenario draws for one argument list.
MaxArgs == 3

(***************************************************************************)
(* Python values                                                           *)
(***************************************************************************)
Str(s) == [t |-> "str", s |-> s, n |-> 0, b |-> FALSE]
Num(n) == [t |-> "int", s |-> <<>>, n |-> n, b |-> FALSE]
Float(n) == [t |-> "float", s |-> <<>>, n |-> n, b |-> FALSE]
Bool(b) == [t |-> "bool", s |-> <<>>, n |-> 0, b |-> b]
None == [t |-> "NoneType", s |-> <<>>, n |-> 0, b |-> FALSE]

\* An empty dict.
EmptyDict == [k \in {} |-> None]

\* d[k] = v on a dict.
DictSet(d, k, v) == [x \in (DOMAIN d) \cup {k} |-> IF x = k THEN v ELSE d[x]]

\* del d[k] on a dict.
DictDel(d, k) == [x \in (DOMAIN d) \ {k} |-> d[x]]

\* d.get(k): None when the key is missing.
DictGet(d, k) == IF k \in DOMAIN d THEN d[k] ELSE None

(***************************************************************************)
(* Python string operations                                                *)
(***************************************************************************)
\* s.startswith(p)
startswith(s, p) == Len(s) >= Len(p) /\ SubSeq(s, 1, Len(p)) = p

\* c in s
contains(s, c) == \E i \in 1..Len(s) : s[i] = c

\* s.find(c), 1-based; 0 when c is not in s.
find(s, c) == IF contains(s, c)
              THEN CHOOSE i \in 1..Len(s) : s[i] = c /\ \A j \in 1..(i-1) : s[j] # c
              ELSE 0

\* s.lstrip(chars): drops every leading character that is in chars.
RECURSIVE lstrip(_, _)
lstrip(s, chars) ==
    IF s # <<>> /\ Head(s) \in chars THEN lstrip(Tail(s), chars) ELSE s

\* s.rstrip(chars): drops every trailing character that is in chars.
RECURSIVE rstrip(_, _)
rstrip(s, chars) ==
    IF s # <<>> /\ s[Len(s)] \in chars
    THEN rstrip(SubSeq(s, 1, Len(s) - 1), chars) ELSE s

\* s.strip(chars)
strip(s, chars) == rstrip(lstrip(s, chars), chars)

UpperCase == <<"A","B","C","D","E","F","G","H","I","J","K","L","M",
               "N","O","P","Q","R","S","T","U","V","W","X","Y","Z">>
LowerCase == <<"a","b","c","d","e","f","g","h","i","j","k","l","m",
               "n","o","p","q","r","s","t","u","v","w","x","y","z">>

\* s.lower() on ASCII text
lower(s) ==
    [i \in 1..Len(s) |->
        IF \E k \in 1..Len(UpperCase) : UpperCase[k] = s[i]
        THEN LowerCase[CHOOSE k \in 1..Len(UpperCase) : UpperCase[k] = s[i]]
        ELSE s[i]]

Digits == <<"0","1","2","3","4","5","6","7","8","9">>
IsDigit(c) == \E k \in 1..Len(Digits) : Digits[k] = c
DigitVal(c) == (CHOOSE k \in 1..Len(Digits) : Digits[k] = c) - 1
Whitespace == {" ", "\t", "\n", "\r"}

\* The digits-and-underscores body of an integer literal: digits, with single
\* underscores allowed between digits.
IsIntBody(s) ==
    /\ s # <<>>
    /\ IsDigit(s[1]) /\ IsDigit(s[Len(s)])
    /\ \A i \in 1..Len(s) : IsDigit(s[i]) \/ s[i] = "_"
    /\ \A i \in 1..(Len(s) - 1) : ~(s[i] = "_" /\ s[i+1] = "_")

RECURSIVE IntBodyVal(_, _)
IntBodyVal(s, acc) ==
    IF s = <<>> THEN acc
    ELSE IF Head(s) = "_" THEN IntBodyVal(Tail(s), acc)
    ELSE IntBodyVal(Tail(s), 10 * acc + DigitVal(Head(s)))

\* int(s) of a string: [ok, n]; ok = FALSE is ValueError.
\* Surrounding whitespace is dropped, one sign is allowed.
IntOfStr(s) ==
    LET u == strip(s, Whitespace)
        signed == u # <<>> /\ Head(u) \in {"+", "-"}
        body == IF signed THEN Tail(u) ELSE u
    IN IF IsIntBody(body)
       THEN [ok |-> TRUE,
             n |-> IF signed /\ Head(u) = "-"
                   THEN 0 - IntBodyVal(body, 0) ELSE IntBodyVal(body, 0)]
       ELSE [ok |-> FALSE, n |-> 0]

(***************************************************************************)
(* totype: convert v to the type of default.  The result names the         *)
(* exception raised ("none" when it returns) and the value returned.       *)
(***************************************************************************)
Returned(v) == [exc |-> "none", val |-> v]
Raised(e, v) == [exc |-> e, val |-> v]

BoolTrueWords == {<<"t","r","u","e">>, <<"y","e","s">>, <<"o","n">>, <<"1">>}
BoolFalseWords == {<<"f","a","l","s","e">>, <<"n","o">>, <<"o","f","f">>, <<"0">>}

\* int(v) / float(v) of the number-typed branches; floats that the modelled
\* tokens can spell are the integer-valued ones.
NumberOf(v, t) ==
    IF v.t = "bool" THEN Returned([Num(IF v.b THEN 1 ELSE 0) EXCEPT !.t = t])
    ELSE IF v.t = "str"
         THEN IF IntOfStr(v.s).ok
              THEN Returned([Num(IntOfStr(v.s).n) EXCEPT !.t = t])
              ELSE Raised("ValueError", v)
    ELSE Raised("TypeError", v)

\* totype that compares the token as written, without v.lower().
totypeCaseSensitive(v, default) ==
    IF default.t = "bool"
    THEN IF v.t # "str" THEN Raised("AttributeError", v)
         ELSE IF v.s \in BoolTrueWords THEN Returned(Bool(TRUE))
         ELSE IF v.s \in BoolFalseWords THEN Returned(Bool(FALSE))
         ELSE Raised("TypeError", v)
    ELSE IF default.t = "int" THEN NumberOf(v, "int")
    ELSE IF default.t = "float" THEN NumberOf(v, "float")
    ELSE Returned(v)

totype(v, default) ==
    IF default.t = "bool"
    THEN IF v.t # "str" THEN Raised("AttributeError", v)
         ELSE IF lower(v.s) \in BoolTrueWords THEN Returned(Bool(TRUE))
         ELSE IF lower(v.s) \in BoolFalseWords THEN Returned(Bool(FALSE))
         ELSE Raised("TypeError", v)
    ELSE IF default.t = "int" THEN NumberOf(v, "int")
    ELSE IF default.t = "float" THEN NumberOf(v, "float")
    ELSE Returned(v)

(***************************************************************************)
(* Command registration (Baker.command).  A function is what getargspec    *)
(* reports of it: its name, its argument list, whether it has *args and    *)
(* **kwargs, and the defaults of its last arguments.                       *)
(***************************************************************************)
Fn(name, arglist, vargs_, kwargs_, defaults) ==
    [name |-> name, arglist |-> arglist, has_vargs |-> vargs_,
     has_kwargs |-> kwargs_, defaults |-> defaults]

\* dict(zip(arglist[0 - len(defaults):], defaults))
ZipKeywords(arglist, defaults) ==
    LET off == Len(arglist) - Len(defaults)
    IN [k \in {arglist[off + i] : i \in 1..Len(defaults)} |->
            defaults[CHOOSE i \in 1..Len(defaults) : arglist[off + i] = k]]

\* The Cmd that command(fn, shortopts=shortopts) stores in the registry.
command(fn, shortopts) ==
    LET is_method == fn.arglist # <<>> /\ Head(fn.arglist) = <<"s","e","l","f">>
    IN [name |-> fn.name,
        argnames |-> IF is_method THEN Tail(fn.arglist) ELSE fn.arglist,
        keywords |-> IF fn.defaults # <<>>
                     THEN ZipKeywords(fn.arglist, fn.defaults) ELSE EmptyDict,
        shortopts |-> shortopts,
        has_varargs |-> fn.has_vargs,
        has_kwargs |-> fn.has_kwargs,
        is_method |-> is_method]

\* shortchars: the reverse of cmd.shortopts (characters are unique per command).
shortchars(cmd_) ==
    [c \in {cmd_.shortopts[k] : k \in DOMAIN cmd_.shortopts} |->
        CHOOSE k \in DOMAIN cmd_.shortopts : cmd_.shortopts[k] = c]

\* One call b.command(fn, name=name, default=default, shortopts=shortopts);
\* name is <<>> when the call leaves it out.
Registration(fn, name, default, shortopts) ==
    [fn |-> fn, name |-> name, default |-> default, shortopts |-> shortopts]

\* RegisteredName that ignores name=: the function's own name is registered.
RegisteredFnName(r) == r.fn.name

\* name = name or fn.__name__
RegisteredName(r) == IF r.name # <<>> THEN r.name ELSE r.fn.name

\* The Cmd the call creates.
RegisteredCmd(r) == [command(r.fn, r.shortopts) EXCEPT !.name = RegisteredName(r)]

\* self.commands[name] = cmd
RegisterCommands(commands_, r) ==
    DictSet(commands_, RegisteredName(r), RegisteredCmd(r))

\* if default: self.defaultcommand = cmd
RegisterDefault(defaultcommand_, r) ==
    IF r.default THEN RegisteredCmd(r) ELSE defaultcommand_

(***************************************************************************)
(* The commands and the tokens of the test suites                          *)
(***************************************************************************)
n_test == <<"t","e","s","t">>
n_a == <<"a">>
n_b == <<"b">>
n_c == <<"c">>
n_alfa == <<"a","l","f","a">>
n_bravo == <<"b","r","a","v","o">>
n_charlie == <<"c","h","a","r","l","i","e">>
n_url == <<"u","r","l">>
n_xml == <<"x","m","l">>
n_json == <<"j","s","o","n">>
n_use == <<"u","s","e">>
n_main == <<"m","a","i","n">>
n_open == <<"o","p","e","n">>
n_foo == <<"f","o","o">>
n_help == <<"h","e","l","p">>
n_auth == <<"a","u","t","h">>
n_port == <<"p","o","r","t">>
n_times == <<"t","i","m","e","s">>
n_reqd == <<"r","e","q","d">>
n_trackall == <<"t","r","a","c","k","a","l","l">>
n_track_all == <<"t","r","a","c","k","-","a","l","l">>
n_workaround == <<"w","o","r","k","a","r","o","u","n","d">>

\* def test(a, b, c)
fn_simple == Fn(n_test, <<n_a, n_b, n_c>>, FALSE, FALSE, <<>>)
\* def test(a, b=False, c=None)
fn_optional == Fn(n_test, <<n_a, n_b, n_c>>, FALSE, FALSE, <<Bool(FALSE), None>>)
\* def test(alfa="1", bravo="2", charlie=False)
fn_shortopts == Fn(n_test, <<n_alfa, n_bravo, n_charlie>>, FALSE, FALSE,
                   <<Str(<<"1">>), Str(<<"2">>), Bool(FALSE)>>)
\* def test(a="a", b="b", c="c")
fn_options == Fn(n_test, <<n_a, n_b, n_c>>, FALSE, FALSE,
                 <<Str(<<"a">>), Str(<<"b">>), Str(<<"c">>)>>)
\* def open(url, xml=False, json=False, use=True)
fn_open == Fn(<<"o","p","e","n">>, <<n_url, n_xml, n_json, n_use>>, FALSE, FALSE,
              <<Bool(FALSE), Bool(FALSE), Bool(TRUE)>>)
\* def test(*args)
fn_varargs == Fn(n_test, <<>>, TRUE, FALSE, <<>>)
\* def test(a="0", *args)
fn_defaulted_args == Fn(n_test, <<n_a>>, TRUE, FALSE, <<Str(<<"0">>)>>)
\* def test(a, b=0, *args)
fn_pos_defaulted_args == Fn(n_test, <<n_a, n_b>>, TRUE, FALSE, <<Num(0)>>)
\* def test(a, b=0, c=4)
fn_double_dash == Fn(n_test, <<n_a, n_b, n_c>>, FALSE, FALSE, <<Num(0), Num(4)>>)

\* def main(auth=False, port=8888)
fn_main == Fn(n_main, <<n_auth, n_port>>, FALSE, FALSE, <<Bool(FALSE), Num(8888)>>)
\* def test(times=10)
fn_times == Fn(n_test, <<n_times>>, FALSE, FALSE, <<Num(10)>>)
\* def foo(reqd)
fn_foo == Fn(n_foo, <<n_reqd>>, FALSE, FALSE, <<>>)
\* def trackall(workaround=None)
fn_trackall == Fn(n_trackall, <<n_workaround>>, FALSE, FALSE, <<None>>)
\* def test(**kwargs)
fn_kwargs == Fn(n_test, <<>>, FALSE, TRUE, <<>>)

NoShortopts == [k \in {} |-> "-"]
AlfaShortopts == [k \in {n_alfa, n_bravo, n_charlie} |->
                    IF k = n_alfa THEN "a" ELSE IF k = n_bravo THEN "b" ELSE "c"]
OpenShortopts == [k \in {n_xml, n_use} |-> IF k = n_xml THEN "x" ELSE "u"]
AShortopts == [k \in {n_a} |-> "a"]
BShortopts == [k \in {n_b} |-> "b"]

t_h == <<"-","h">>
t_help == <<"-","-","h","e","l","p">>
t_dd == <<"-","-">>
t_dash == <<"-">>
t_1 == <<"1">>
t_2 == <<"2">>
t_3 == <<"3">>
t_100 == <<"1","0","0">>
t_200 == <<"2","0","0">>
t_helloworld == <<"h","e","l","l","o"," ","w","o","r","l","d">>

\* A scenario is a script and the argument lists it may pass: the calls of
\* b.command it makes, then one call of b.run or b.test whose argv is the
\* script name, the prefix and tokens drawn from the scenario's set.
\* Scenario: one command, named on the command line.
Scenario(fn, shortopts, tokens) ==
    [script |-> <<Registration(fn, <<>>, FALSE, shortopts)>>,
     prefix |-> <<fn.name>>,
     tokens |-> tokens]

\* DispatchScenario: several registrations; the whole command line is drawn.
DispatchScenario(script, tokens) ==
    [script |-> script, prefix |-> <<>>, tokens |-> tokens]

Scenarios ==
    { Scenario(fn_simple, NoShortopts,
               {t_1, t_2, t_3, <<"-","x">>, t_dash, t_dd, <<"-","-","b">>}),
      Scenario(fn_optional, NoShortopts,
               {t_100, t_200, <<"-","-","b">>, <<"-","-","c">>, t_dd,
                <<"-","-","b","=","N","o">>}),
      Scenario(fn_shortopts, AlfaShortopts,
               {<<"-","a">>, t_100, <<"-","c","b","2","0","0">>, <<"-","c">>,
                <<"-","x","b">>, <<"-","-","a","l","f","a">>}),
      Scenario(fn_options, NoShortopts,
               {<<"a","l","f","a">>, <<"b","r","a","v","o">>, <<"-","-","a">>,
                <<"-","-","b","=","b","r","a","v","o">>, <<"-","-","b">>, <<"-","-","c">>}),
      Scenario(fn_options, NoShortopts,
               {<<"-","-","b","=","'">> \o t_helloworld \o <<"'">>,
                <<"-","-","b","=","'","'","h","'","'">>,
                <<"-","-","b","=","'","h">>,
                <<"-","-","b","=","\"","h","'">>,
                <<"-","-","a","=","x","=","y">>,
                <<"-","-","a","=">>}),
      Scenario(fn_open, OpenShortopts,
               {<<"u","1">>, <<"-","-","u","s","e">>, <<"-","-","x","m","l">>,
                <<"-","x","u">>, <<"-","q">>, <<"-","-","u","s","e","=","O","F","F">>,
                <<"-","-","j","s","o","n","=","m","a","y","b","e">>}),
      Scenario(fn_varargs, NoShortopts,
               {t_dd, t_dash, <<"x">>, <<"-","y">>, <<"-","-","k">>}),
      Scenario(fn_defaulted_args, AShortopts,
               {t_1, t_2, <<"-","a">>, <<"-","-","a">>, <<"-","a","9">>, t_dd}),
      Scenario(fn_pos_defaulted_args, NoShortopts,
               {t_1, t_2, t_3, <<"-","b">>, <<"-","-","b">>,
                <<"-","-","b","=","5">>, <<"-","-","a">>}),
      Scenario(fn_double_dash, BShortopts,
               {<<"-","b">>, <<"7">>, t_dd, <<"6">>, <<"8">>, <<"-","b","x">>,
                <<"-","-","c","=","-","9">>}),
      Scenario(fn_kwargs, NoShortopts,
               {<<"-","-","a">>, t_1, <<"-","-","b">>, t_2, <<"-","-","a","=","3">>}),
      \* tests/main.py build_baker: main is the default command
      DispatchScenario(<<Registration(fn_main, <<>>, TRUE, NoShortopts),
                         Registration(fn_open, <<>>, FALSE, OpenShortopts)>>,
                       {n_open, n_help, t_h, t_help, <<"9">>, n_main}),
      \* tests/main.py test_errors: no default command
      DispatchScenario(<<Registration(fn_times, <<>>, FALSE, NoShortopts),
                         Registration(fn_foo, <<>>, FALSE, NoShortopts)>>,
                       {n_test, n_foo, n_help, t_help, <<"-","-","b","l","a","h">>,
                        <<"-","-","t","i","m","e","s">>, <<"b","a","r">>, t_1}),
      \* tests/main.py test_alias: trackall registered as track-all
      DispatchScenario(<<Registration(fn_trackall, n_track_all, FALSE, NoShortopts)>>,
                       {n_trackall, n_track_all, t_1}),
      \* a default command whose name is registered again
      DispatchScenario(<<Registration(fn_options, <<>>, TRUE, NoShortopts),
                         Registration(fn_simple, <<>>, FALSE, NoShortopts)>>,
                       {n_test, n_help, t_1, t_2}) }

\* Every list of at most n tokens drawn from S.
RECURSIVE SeqsUpTo(_, _)
SeqsUpTo(S, n) ==
    IF n = 0 THEN {<<>>}
    ELSE LET shorter == SeqsUpTo(S, n - 1)
         IN shorter \cup {Append(q, x) : q \in shorter, x \in S}

(***************************************************************************)
(* State                                                                   *)
(***************************************************************************)
VARIABLES
    scenario,       \* the script that drives the Baker and the tokens it passes
    registered,     \* how many of the script's b.command calls have been made
    commands,       \* Baker.commands: name -> Cmd
    defaultcommand, \* Baker.defaultcommand: a Cmd or None
    sysargv,        \* the argv list the caller passes to run or test
    coerced,        \* a direct call of totype: its arguments and its result
    pc,             \* "register", "run", "parse", "parse_args", "parsed", "done",
                    \* "exit"
    cmd,            \* the Cmd that parse resolved
    test,           \* parse(argv, test=...): TRUE when Baker.test drives the parse
    options,        \* the option list parse hands to parse_args, as it was
    argv,           \* parse_args: the queue of tokens still to take
    vargs,          \* parse_args: the positional list
    kwargs,         \* parse_args: the keyword dict
    doubledashcnt,
    singledashcnt,
    outcome,        \* "running", "applied", "tested", "returned" or the
                    \* exception raised
    msg,            \* the message of a CommandError
    newargs,        \* apply: cmd.fn(*newargs, **newkwargs)
    newkwargs,
    main,           \* run(main=...)
    help_on_error,  \* run(help_on_error=...)
    errorcode,      \* run(errorcode=...)
    written,        \* what run has written to its files, in the order written
    exited          \* <<code>> once sys.exit(code) was called, else <<>>

vars == <<scenario, registered, commands, defaultcommand, sysargv, coerced,
          pc, cmd, test, options, argv, vargs, kwargs, doubledashcnt,
          singledashcnt, outcome, msg, newargs, newkwargs,
          main, help_on_error, errorcode, written, exited>>

\* The message of a CommandError: its kind, and what it names.
NoMsg == [kind |-> "", name |-> <<>>, value |-> None, type |-> ""]

\* What the steps of a dispatch leave alone.
baker == <<scenario, registered, commands, defaultcommand, sysargv, coerced,
           main, help_on_error, errorcode, written, exited>>

\* No direct call of totype is made.
NoCall == [v |-> None, default |-> None, exc |-> "", val |-> None]

\* Baker(): an empty registry and no default command; the script is about to
\* make its first b.command call.
Init ==
    /\ scenario \in Scenarios
    /\ registered = 0
    /\ commands = EmptyDict
    /\ defaultcommand = None
    /\ sysargv = <<>>
    /\ coerced = NoCall
    /\ cmd = None
    /\ options = <<>>
    /\ test = FALSE
    /\ pc = "register"
    /\ argv = <<>>
    /\ vargs = <<>>
    /\ kwargs = EmptyDict
    /\ doubledashcnt = 0
    /\ singledashcnt = 0
    /\ outcome = "running"
    /\ msg = NoMsg
    /\ newargs = <<>>
    /\ newkwargs = EmptyDict
    /\ main = FALSE
    /\ help_on_error = FALSE
    /\ errorcode = 0
    /\ written = <<>>
    /\ exited = <<>>

(***************************************************************************)
(* Registration and dispatch: Baker.command, then Baker.parse as run and   *)
(* test call it.                                                           *)
(***************************************************************************)
\* The script makes its next b.command call.
Command ==
    /\ pc = "register"
    /\ registered < Len(scenario.script)
    /\ LET r == scenario.script[registered + 1]
       IN /\ commands' = RegisterCommands(commands, r)
          /\ defaultcommand' = RegisterDefault(defaultcommand, r)
    /\ registered' = registered + 1
    /\ UNCHANGED <<scenario, sysargv, coerced, pc, cmd, test, options, argv, vargs,
                   kwargs, doubledashcnt, singledashcnt, outcome, msg, newargs,
                   newkwargs, main, help_on_error, errorcode, written, exited>>

\* argv[0]
scriptname == <<"s">>

\* The script calls b.run(argv, main=False) or b.test(argv).
Call ==
    /\ pc = "register"
    /\ registered = Len(scenario.script)
    /\ \E opts \in SeqsUpTo(scenario.tokens, MaxArgs) :
          sysargv' = <<scriptname>> \o scenario.prefix \o opts
    /\ test' \in BOOLEAN
    /\ pc' = "run"
    /\ UNCHANGED <<scenario, registered, commands, defaultcommand, coerced, cmd,
                   options, argv, vargs, kwargs, doubledashcnt, singledashcnt,
                   outcome, msg, newargs, newkwargs,
                   main, help_on_error, errorcode, written, exited>>

\* The script calls b.run(argv, main=True, help_on_error=..., errorcode=...),
\* with errorcode 0 (never exit) or the default 1.
CallMain ==
    /\ pc = "register"
    /\ registered = Len(scenario.script)
    /\ \E opts \in SeqsUpTo(scenario.tokens, MaxArgs) :
          sysargv' = <<scriptname>> \o scenario.prefix \o opts
    /\ test' = FALSE
    /\ main' = TRUE
    /\ help_on_error' \in BOOLEAN
    /\ errorcode' \in {0, 1}
    /\ pc' = "run"
    /\ UNCHANGED <<scenario, registered, commands, defaultcommand, coerced, cmd,
                   options, argv, vargs, kwargs, doubledashcnt, singledashcnt,
                   outcome, msg, newargs, newkwargs, written, exited>>

\* HelpFlags without the short flag.
HelpFlagsLongOnly == {t_help}

\* argv[1] == "-h" or argv[1] == "--help"
HelpFlags == {t_h, t_help}

\* What parse comes to: the exception it raises ("none" when it goes on to
\* parse_args), the caller's argv list as parse leaves it, cmd and options.
ParseResult(exc, argv_, cmd_, options_, kind) ==
    [exc |-> exc, argv |-> argv_, cmd |-> cmd_, options |-> options_,
     msg |-> [NoMsg EXCEPT !.kind = kind]]

\* parse without the test of the token after the command name: a help flag
\* there is handed to parse_args with the other options.
parseOptionsOnly(commands_, defaultcommand_, argv_) ==
    LET a == IF Len(argv_) < 2 /\ defaultcommand_ # None
             THEN Append(argv_, defaultcommand_.name) ELSE argv_
    IN IF Len(a) < 2 \/ a[2] \in HelpFlags
       THEN ParseResult("TopHelp", a, None, <<>>, "")
       ELSE IF a[2] = n_help
       THEN IF Len(a) > 2 /\ a[3] \in DOMAIN commands_
            THEN ParseResult("CommandHelp", a, commands_[a[3]], <<>>, "")
            ELSE ParseResult("TopHelp", a, None, <<>>, "")
       ELSE IF a[2] \in DOMAIN commands_
       THEN ParseResult("none", a, commands_[a[2]], SubSeq(a, 3, Len(a)), "")
       ELSE IF defaultcommand_ = None
       THEN ParseResult("CommandError", a, None, <<>>, "No command specified")
       ELSE ParseResult("none", a, defaultcommand_, SubSeq(a, 2, Len(a)), "")

\* Baker.parse, up to the call of parse_args.
parse(commands_, defaultcommand_, argv_) ==
    LET a == IF Len(argv_) < 2 /\ defaultcommand_ # None
             THEN Append(argv_, defaultcommand_.name) ELSE argv_
    IN IF Len(a) < 2 \/ a[2] \in HelpFlags
       THEN ParseResult("TopHelp", a, None, <<>>, "")
       ELSE IF a[2] = n_help
       THEN IF Len(a) > 2 /\ a[3] \in DOMAIN commands_
            THEN ParseResult("CommandHelp", a, commands_[a[3]], <<>>, "")
            ELSE ParseResult("TopHelp", a, None, <<>>, "")
       ELSE IF a[2] \in DOMAIN commands_
       THEN IF Len(a) > 2 /\ a[3] \in HelpFlags
            THEN ParseResult("CommandHelp", a, commands_[a[2]], <<>>, "")
            ELSE ParseResult("none", a, commands_[a[2]], SubSeq(a, 3, Len(a)), "")
       ELSE IF defaultcommand_ = None
       THEN ParseResult("CommandError", a, None, <<>>, "No command specified")
       ELSE ParseResult("none", a, defaultcommand_, SubSeq(a, 2, Len(a)), "")

\* run and test start with parse(argv): the command is resolved, or help or
\* an error is raised.
Parse ==
    /\ pc = "run"
    /\ LET r == parse(commands, defaultcommand, sysargv)
       IN /\ sysargv' = r.argv
          /\ cmd' = r.cmd
          /\ options' = r.options
          /\ IF r.exc = "none"
             THEN pc' = "parse" /\ outcome' = outcome /\ msg' = msg
             ELSE pc' = "done" /\ outcome' = r.exc /\ msg' = r.msg
    /\ UNCHANGED <<scenario, registered, commands, defaultcommand, coerced, test,
                   argv, vargs, kwargs, doubledashcnt, singledashcnt, newargs,
                   newkwargs, main, help_on_error, errorcode, written, exited>>

(***************************************************************************)
(* parse_args: one action per iteration of "while argv", by the branch the *)
(* token takes.                                                            *)
(***************************************************************************)
\* type_error that never raises, as if test were always set.
type_errorLenient(name, value, default, test_) == [exc |-> "none", msg |-> NoMsg]

\* type_error(name, value, t): raises CommandError unless test is set.
type_error(name, value, default, test_) ==
    IF test_ THEN [exc |-> "none", msg |-> NoMsg]
    ELSE [exc |-> "CommandError",
          msg |-> [kind |-> "must be", name |-> name, value |-> value,
                   type |-> default.t]]

\* try: value = totype(value, default) / except (TypeError, ValueError):
\* type_error(...).  The value is left as it was when totype raises.
Coerce(name, value, default, test_) ==
    LET r == totype(value, default)
    IN IF r.exc = "none" THEN [value |-> r.val, exc |-> "none", msg |-> NoMsg]
       ELSE IF r.exc \in {"TypeError", "ValueError"}
            THEN [value |-> value,
                  exc |-> type_error(name, value, default, test_).exc,
                  msg |-> type_error(name, value, default, test_).msg]
       ELSE [value |-> value, exc |-> r.exc, msg |-> NoMsg]

\* The quote characters value.strip('\'"') removes.
Quotes == {"'", "\""}

\* value.strip('\'"')
StripQuotes(value) == strip(value, Quotes)

\* --keyword=value.  The local variable value is bound once, to the stripped
\* text, before it is converted.
LongOptionEq(arg, rest, keywords, test_) ==
    LET body == SubSeq(arg, 3, Len(arg))
        eq == find(body, "=")
        name == SubSeq(body, 1, eq - 1)
        Stored(value) ==
            LET c == Coerce(name, Str(value), DictGet(keywords, name), test_)
            IN [name |-> name, value |-> c.value, argv |-> rest,
                exc |-> c.exc, msg |-> c.msg]
    IN CHOOSE r \in {Stored(value) :
                        value \in {StripQuotes(SubSeq(body, eq + 1, Len(body)))}} : TRUE

\* LongFlag with the flag read as "set": True whatever the default.
LongFlagAlwaysTrue(default) == Bool(TRUE)

\* A boolean long option given without a value: the opposite of the default.
LongFlag(default) == Bool(~default.b)

\* --keyword, with the value (if any) in the next token
\* LongOptionBare that puts a value option back on the queue when no value
\* follows it.
LongOptionBareRequeue(arg, rest, keywords, test_) ==
    LET name == SubSeq(arg, 3, Len(arg))
        default == DictGet(keywords, name)
    IN IF default.t = "bool"
       THEN [name |-> name, value |-> LongFlag(default), argv |-> rest,
             exc |-> "none", msg |-> NoMsg]
       ELSE LET novalue == rest = <<>> \/ startswith(Head(rest), <<"-">>)
                value == IF novalue THEN Bool(TRUE) ELSE Str(Head(rest))
                c == Coerce(name, value, default, test_)
            IN [name |-> name, value |-> c.value,
                argv |-> IF novalue THEN <<arg>> \o rest ELSE Tail(rest),
                exc |-> c.exc, msg |-> c.msg]

LongOptionBare(arg, rest, keywords, test_) ==
    LET name == SubSeq(arg, 3, Len(arg))
        default == DictGet(keywords, name)
    IN IF default.t = "bool"
       THEN [name |-> name, value |-> LongFlag(default), argv |-> rest,
             exc |-> "none", msg |-> NoMsg]
       ELSE LET novalue == rest = <<>> \/ startswith(Head(rest), <<"-">>)
                value == IF novalue THEN Bool(TRUE) ELSE Str(Head(rest))
                c == Coerce(name, value, default, test_)
            IN [name |-> name, value |-> c.value,
                argv |-> IF novalue THEN rest ELSE Tail(rest),
                exc |-> c.exc, msg |-> c.msg]

\* A boolean short option: the opposite of the default.
ShortFlag(default) == Bool(~default.b)

\* ShortValue with the slice taken from the option character itself.
ShortValueFromOption(arg, i, rest) ==
    IF i = Len(arg) THEN Head(rest) ELSE SubSeq(arg, i, Len(arg))

\* The value of the non-boolean short option at arg[i]: the rest of the token,
\* or the next token of the queue when arg[i] is the last character.
ShortValue(arg, i, rest) ==
    IF i = Len(arg) THEN Head(rest) ELSE SubSeq(arg, i + 1, Len(arg))

\* ShortOptionScan that refuses a character that is no short option of the
\* command instead of passing over it.
RECURSIVE ShortOptionScanStrict(_, _, _, _, _, _)
ShortOptionScanStrict(arg, i, rest, kw, cmd_, test_) ==
    IF i > Len(arg) THEN [argv |-> rest, kwargs |-> kw, exc |-> "none", msg |-> NoMsg]
    ELSE IF arg[i] \notin DOMAIN shortchars(cmd_)
    THEN [argv |-> rest, kwargs |-> kw, exc |-> "CommandError",
          msg |-> [NoMsg EXCEPT !.kind = "Unknown option"]]
    ELSE LET name == shortchars(cmd_)[arg[i]]
             default == cmd_.keywords[name]
         IN IF default.t = "bool"
            THEN ShortOptionScanStrict(arg, i + 1, rest,
                                       DictSet(kw, name, ShortFlag(default)),
                                       cmd_, test_)
            ELSE IF i = Len(arg) /\ rest = <<>>
            THEN [argv |-> rest, kwargs |-> kw, exc |-> "IndexError", msg |-> NoMsg]
            ELSE LET value == Str(ShortValue(arg, i, rest))
                     r == totype(value, default)
                     c == Coerce(name, value, default, test_)
                 IN [argv |-> IF i = Len(arg) THEN Tail(rest) ELSE rest,
                     kwargs |-> IF r.exc = "none"
                                THEN DictSet(kw, name, r.val) ELSE kw,
                     exc |-> c.exc, msg |-> c.msg]

\* for i in range(1, len(arg)), from character i on (1-based, arg[1] = "-").
RECURSIVE ShortOptionScan(_, _, _, _, _, _)
ShortOptionScan(arg, i, rest, kw, cmd_, test_) ==
    IF i > Len(arg) THEN [argv |-> rest, kwargs |-> kw, exc |-> "none", msg |-> NoMsg]
    ELSE IF arg[i] \notin DOMAIN shortchars(cmd_)
    THEN ShortOptionScan(arg, i + 1, rest, kw, cmd_, test_)
    ELSE LET name == shortchars(cmd_)[arg[i]]
         IN IF name \notin DOMAIN cmd_.keywords
            THEN [argv |-> rest, kwargs |-> kw, exc |-> "KeyError", msg |-> NoMsg]
            ELSE LET default == cmd_.keywords[name]
                 IN IF default.t = "bool"
                    THEN ShortOptionScan(arg, i + 1, rest,
                                         DictSet(kw, name, ShortFlag(default)),
                                         cmd_, test_)
                    ELSE IF i = Len(arg) /\ rest = <<>>
                    THEN [argv |-> rest, kwargs |-> kw, exc |-> "IndexError",
                          msg |-> NoMsg]
                    ELSE LET value == Str(ShortValue(arg, i, rest))
                             rest2 == IF i = Len(arg) THEN Tail(rest) ELSE rest
                             r == totype(value, default)
                             c == Coerce(name, value, default, test_)
                         IN [argv |-> rest2,
                             kwargs |-> IF r.exc = "none"
                                        THEN DictSet(kw, name, r.val) ELSE kw,
                             exc |-> c.exc, msg |-> c.msg]

\* IsShortOption without the "and cmd.shortopts" test.
IsShortOptionAnyCommand(arg, cmd_) ==
    /\ arg # <<"-","-">> /\ arg # <<"-">>
    /\ ~startswith(arg, <<"-","-">>) /\ startswith(arg, <<"-">>)

\* The branch a token takes.
IsDoubleDash(arg) == arg = <<"-","-">>
IsSingleDash(arg) == arg = <<"-">>
IsLongOption(arg) ==
    ~IsDoubleDash(arg) /\ ~IsSingleDash(arg) /\ startswith(arg, <<"-","-">>)
IsShortOption(arg, cmd_) ==
    /\ ~IsDoubleDash(arg) /\ ~IsSingleDash(arg) /\ ~IsLongOption(arg)
    /\ startswith(arg, <<"-">>) /\ DOMAIN cmd_.shortopts # {}

\* The end of an iteration: back to the loop test, or out with an exception.
LoopOrRaise(exc, m) ==
    IF exc = "none"
    THEN /\ pc' = IF argv' = <<>> THEN "parsed" ELSE "parse_args"
         /\ outcome' = outcome
         /\ msg' = msg
    ELSE /\ pc' = "done"
         /\ outcome' = exc
         /\ msg' = m

\* parse_args is entered: the lists and counters are set up and the loop test
\* is made for the first time.
ParseArgsEnter ==
    /\ UNCHANGED baker
    /\ pc = "parse"
    /\ argv' = options
    /\ vargs' = <<>>
    /\ kwargs' = EmptyDict
    /\ doubledashcnt' = 0
    /\ singledashcnt' = 0
    /\ pc' = IF options = <<>> THEN "parsed" ELSE "parse_args"
    /\ UNCHANGED <<cmd, test, options, outcome, msg, newargs, newkwargs>>

\* ExtendVargs that keeps classifying: tokens that look like options are not
\* taken as positional arguments.
ExtendVargsBareOnly(v, rest) ==
    v \o SelectSeq(rest, LAMBDA tok : ~startswith(tok, <<"-">>))

\* vargs.extend(argv)
ExtendVargs(v, rest) == v \o rest

\* arg == "--": the rest of the queue goes to vargs and the loop is left.
DoubleDash ==
    /\ UNCHANGED baker
    /\ pc = "parse_args"
    /\ IsDoubleDash(Head(argv))
    /\ argv' = Tail(argv)
    /\ doubledashcnt' = doubledashcnt + 1
    /\ IF doubledashcnt' = 1
       THEN /\ vargs' = ExtendVargs(vargs, argv')
            /\ pc' = "parsed"
            /\ outcome' = outcome
       ELSE /\ vargs' = vargs
            /\ pc' = "done"
            /\ outcome' = "AssertionError"
    /\ UNCHANGED <<cmd, test, options, kwargs, singledashcnt, msg, newargs, newkwargs>>

\* arg == "-": the stdin marker.
SingleDash ==
    /\ UNCHANGED baker
    /\ pc = "parse_args"
    /\ IsSingleDash(Head(argv))
    /\ argv' = Tail(argv)
    /\ singledashcnt' = singledashcnt + 1
    /\ IF singledashcnt' = 1
       THEN /\ vargs' = Append(vargs, <<"-">>)
            /\ LoopOrRaise("none", NoMsg)
       ELSE /\ vargs' = vargs
            /\ LoopOrRaise("AssertionError", NoMsg)
    /\ UNCHANGED <<cmd, test, options, kwargs, doubledashcnt, newargs, newkwargs>>

\* arg.startswith("--"): a long option.
LongOption ==
    /\ UNCHANGED baker
    /\ pc = "parse_args"
    /\ IsLongOption(Head(argv))
    /\ \E r \in {IF contains(Head(argv), "=")
                 THEN LongOptionEq(Head(argv), Tail(argv), cmd.keywords, test)
                 ELSE LongOptionBare(Head(argv), Tail(argv), cmd.keywords, test)} :
          /\ argv' = r.argv
          /\ kwargs' = IF r.exc = "none" THEN DictSet(kwargs, r.name, r.value)
                       ELSE kwargs
          /\ LoopOrRaise(r.exc, r.msg)
    /\ UNCHANGED <<cmd, test, options, vargs, doubledashcnt, singledashcnt,
                   newargs, newkwargs>>

\* arg.startswith("-") and cmd.shortopts: a cluster of short options.
ShortOption ==
    /\ UNCHANGED baker
    /\ pc = "parse_args"
    /\ IsShortOption(Head(argv), cmd)
    /\ LET r == ShortOptionScan(Head(argv), 2, Tail(argv), kwargs, cmd, test)
       IN /\ argv' = r.argv
          /\ kwargs' = r.kwargs
          /\ LoopOrRaise(r.exc, r.msg)
    /\ UNCHANGED <<cmd, test, options, vargs, doubledashcnt, singledashcnt,
                   newargs, newkwargs>>

\* Anything else is a positional argument.
BareToken ==
    /\ UNCHANGED baker
    /\ pc = "parse_args"
    /\ ~IsDoubleDash(Head(argv)) /\ ~IsSingleDash(Head(argv))
    /\ ~IsLongOption(Head(argv)) /\ ~IsShortOption(Head(argv), cmd)
    /\ argv' = Tail(argv)
    /\ vargs' = Append(vargs, Head(argv))
    /\ LoopOrRaise("none", NoMsg)
    /\ UNCHANGED <<cmd, test, options, kwargs, doubledashcnt, singledashcnt,
                   newargs, newkwargs>>

(***************************************************************************)
(* apply: the arguments are rearranged into the order Python expects and   *)
(* the command's function is called.  The loop over cmd.argnames carries   *)
(* args, newargs and newkwargs; brk is set when the loop is left by break. *)
(***************************************************************************)
\* KeywordWithVarargs filling an unnamed keyword parameter from the bare
\* arguments, as Python's own calling convention would.
KeywordWithVarargsBackfilled(cmd_, name, st) ==
    IF name \in DOMAIN st.newkwargs
    THEN [st EXCEPT !.newargs = Append(st.newargs, st.newkwargs[name]),
                    !.newkwargs = DictDel(st.newkwargs, name)]
    ELSE [st EXCEPT !.newargs = Append(st.newargs, Head(st.args)),
                    !.args = Tail(st.args)]

\* Keyword parameter of a command with *args: the named value or the default
\* goes to newargs; no bare argument is taken.
KeywordWithVarargs(cmd_, name, st) ==
    LET value == IF name \in DOMAIN st.newkwargs
                 THEN st.newkwargs[name] ELSE cmd_.keywords[name]
    IN [st EXCEPT !.newargs = Append(st.newargs, value),
                  !.newkwargs = DictDel(st.newkwargs, name)]

\* KeywordBackfill without the "not name in newkwargs" test: the next bare
\* argument overwrites a value given by name.
KeywordBackfillAlways(cmd_, name, st) ==
    [st EXCEPT !.newkwargs = DictSet(st.newkwargs, name, Head(st.args)),
               !.args = Tail(st.args)]

\* KeywordBackfill with the bare argument coerced to the type of the default.
KeywordBackfillCoerced(cmd_, name, st) ==
    IF name \notin DOMAIN st.newkwargs
    THEN [st EXCEPT !.newkwargs =
                        DictSet(st.newkwargs, name,
                                totype(Head(st.args), cmd_.keywords[name]).val),
                    !.args = Tail(st.args)]
    ELSE st

\* Keyword parameter of a command without *args: filled with the next bare
\* argument unless it was given by name.
KeywordBackfill(cmd_, name, st) ==
    IF name \notin DOMAIN st.newkwargs
    THEN [st EXCEPT !.newkwargs = DictSet(st.newkwargs, name, Head(st.args)),
                    !.args = Tail(st.args)]
    ELSE st

\* PositionalArg that lets a missing argument pass: the call is made without it.
PositionalArgUnchecked(name, st) ==
    IF name \in DOMAIN st.newkwargs
    THEN [st EXCEPT !.newargs = Append(st.newargs, st.newkwargs[name]),
                    !.newkwargs = DictDel(st.newkwargs, name)]
    ELSE IF st.args # <<>>
    THEN [st EXCEPT !.newargs = Append(st.newargs, Head(st.args)),
                    !.args = Tail(st.args)]
    ELSE st

\* Parameter without a default: the named value, else the next bare argument,
\* else CommandError.
PositionalArg(name, st) ==
    IF name \in DOMAIN st.newkwargs
    THEN [st EXCEPT !.newargs = Append(st.newargs, st.newkwargs[name]),
                    !.newkwargs = DictDel(st.newkwargs, name)]
    ELSE IF st.args # <<>>
    THEN [st EXCEPT !.newargs = Append(st.newargs, Head(st.args)),
                    !.args = Tail(st.args)]
    ELSE [st EXCEPT !.exc = "CommandError",
                    !.msg = [NoMsg EXCEPT !.kind = "Required argument",
                                          !.name = name]]

\* for name in cmd.argnames, from the i-th name on.
RECURSIVE Rearrange(_, _, _)
Rearrange(cmd_, i, st) ==
    IF i > Len(cmd_.argnames) \/ st.exc # "none" \/ st.brk THEN st
    ELSE LET name == cmd_.argnames[i]
         IN IF name \in DOMAIN cmd_.keywords
            THEN IF st.args = <<>>
                 THEN [st EXCEPT !.brk = TRUE]
                 ELSE IF cmd_.has_varargs
                      THEN Rearrange(cmd_, i + 1, KeywordWithVarargs(cmd_, name, st))
                      ELSE Rearrange(cmd_, i + 1, KeywordBackfill(cmd_, name, st))
            ELSE Rearrange(cmd_, i + 1, PositionalArg(name, st))

\* Leftover that drops the arguments a command without *args cannot take.
LeftoverDropped(cmd_, st) ==
    IF st.exc # "none" \/ st.args = <<>> THEN st
    ELSE IF cmd_.has_varargs
    THEN [st EXCEPT !.newargs = st.newargs \o st.args, !.args = <<>>]
    ELSE [st EXCEPT !.args = <<>>]

\* if args: the arguments left over go to *args, or are too many.
Leftover(cmd_, st) ==
    IF st.exc # "none" \/ st.args = <<>> THEN st
    ELSE IF cmd_.has_varargs
    THEN [st EXCEPT !.newargs = st.newargs \o st.args, !.args = <<>>]
    ELSE [st EXCEPT !.exc = "CommandError",
                    !.msg = [NoMsg EXCEPT !.kind = "Too many arguments"]]

\* UnknownOptions without the check: every key is let through to the call.
UnknownOptionsIgnored(cmd_, nk) == {}

\* The keys of newkwargs that "if k not in cmd.keywords" rejects.
UnknownOptions(cmd_, nk) ==
    IF cmd_.has_kwargs THEN {} ELSE (DOMAIN nk) \ (DOMAIN cmd_.keywords)

\* cmd.fn(*newargs, **newkwargs): how Python binds the call.  ok = FALSE is the
\* TypeError of a call that does not fit the signature.
Bind(cmd_, na, nk) ==
    LET names == cmd_.argnames
        npos == IF Len(na) < Len(names) THEN Len(na) ELSE Len(names)
        bypos == {names[i] : i \in 1..npos}
        all == {names[i] : i \in 1..Len(names)}
    IN [ok |-> /\ (Len(na) <= Len(names) \/ cmd_.has_varargs)
               /\ bypos \cap (DOMAIN nk) = {}
               /\ (cmd_.has_kwargs \/ (DOMAIN nk) \subseteq all)
               /\ all \subseteq bypos \cup (DOMAIN nk) \cup (DOMAIN cmd_.keywords),
        params |-> [k \in all |->
                      IF k \in bypos
                      THEN na[CHOOSE i \in 1..npos : names[i] = k]
                      ELSE IF k \in DOMAIN nk THEN nk[k]
                      ELSE DictGet(cmd_.keywords, k)],
        rest |-> SubSeq(na, npos + 1, Len(na)),
        bag |-> [k \in (DOMAIN nk) \ all |-> nk[k]]]

\* run: apply(*parse(argv)).
Apply ==
    /\ UNCHANGED baker
    /\ pc = "parsed"
    /\ ~test
    /\ LET st0 == [args |-> [i \in 1..Len(vargs) |-> Str(vargs[i])],
                   newargs |-> <<>>, newkwargs |-> kwargs,
                   exc |-> "none", msg |-> NoMsg, brk |-> FALSE]
           st == Leftover(cmd, Rearrange(cmd, 1, st0))
           unknown == UnknownOptions(cmd, st.newkwargs)
       IN /\ newargs' = st.newargs
          /\ newkwargs' = st.newkwargs
          /\ IF st.exc # "none"
             THEN outcome' = st.exc /\ msg' = st.msg
             ELSE IF unknown # {}
             THEN /\ outcome' = "CommandError"
                  /\ \E k \in unknown :
                        msg' = [NoMsg EXCEPT !.kind = "Unknown option", !.name = k]
             ELSE /\ outcome' = IF Bind(cmd, st.newargs, st.newkwargs).ok
                                THEN "applied" ELSE "TypeError"
                  /\ msg' = msg
    /\ pc' = "done"
    /\ UNCHANGED <<cmd, test, options, argv, vargs, kwargs, doubledashcnt,
                   singledashcnt>>

\* test: parse(argv, test=True); the call is shown, not made.
TestResult ==
    /\ UNCHANGED baker
    /\ pc = "parsed"
    /\ test
    /\ pc' = "done"
    /\ outcome' = "tested"
    /\ UNCHANGED <<cmd, test, options, argv, vargs, kwargs, doubledashcnt,
                   singledashcnt, msg, newargs, newkwargs>>

Next ==
    \/ Command
    \/ Call
    \/ Parse
    \/ ParseArgsEnter
    \/ DoubleDash
    \/ SingleDash
    \/ LongOption
    \/ ShortOption
    \/ BareToken
    \/ Apply
    \/ TestResult

Spec == Init /\ [][Next]_vars

(***************************************************************************)
(* run(main=True): what run does with the result of the dispatch.          *)
(***************************************************************************)
\* The attributes CommandError.__init__ sets.
CommandErrorAttributes == {"scriptname", "commandname"}

\* self.write(outfile, str(value) + '\n'): the value the command returned.
ValueLine(cmd_, args, kw) ==
    [file |-> "outfile", kind |-> "value", name |-> cmd_.name, msg |-> NoMsg,
     args |-> args, kwargs |-> kw]

\* self.write(errorfile, str(e) + "\n")
ErrorLine(m) ==
    [file |-> "errorfile", kind |-> "error", name |-> <<>>, msg |-> m,
     args |-> <<>>, kwargs |-> EmptyDict]

\* self.write(errorfile, "\n")
BlankLine ==
    [file |-> "errorfile", kind |-> "newline", name |-> <<>>, msg |-> NoMsg,
     args |-> <<>>, kwargs |-> EmptyDict]

\* usage(cmd, file=helpfile): print_top_help when cmd is None, else
\* print_command_help for cmd.
usage(cmd_) ==
    IF cmd_ = None
    THEN [file |-> "helpfile", kind |-> "top help", name |-> <<>>, msg |-> NoMsg,
          args |-> <<>>, kwargs |-> EmptyDict]
    ELSE [file |-> "helpfile", kind |-> "command help", name |-> cmd_.name,
          msg |-> NoMsg, args |-> <<>>, kwargs |-> EmptyDict]

\* The rest of run once apply has returned or parse/apply has raised TopHelp,
\* CommandHelp or CommandError, with main set; any other exception leaves run
\* as it is.  The commands of the scenarios return their arguments, never
\* None, so the value is written.
Report ==
    /\ pc = "done"
    /\ main
    /\ outcome \in {"applied", "TopHelp", "CommandHelp", "CommandError"}
    /\ pc' = "exit"
    /\ IF outcome = "applied"
       THEN /\ written' = Append(written, ValueLine(cmd, newargs, newkwargs))
            /\ outcome' = "returned"
            /\ exited' = exited
       ELSE IF outcome = "TopHelp"
       THEN /\ written' = Append(written, usage(None))
            /\ outcome' = "returned"
            /\ exited' = exited
       ELSE IF outcome = "CommandHelp"
       THEN /\ written' = Append(written, usage(cmd))
            /\ outcome' = "returned"
            /\ exited' = exited
       ELSE IF help_on_error /\ "cmd" \notin CommandErrorAttributes
       THEN /\ written' = written \o <<ErrorLine(msg), BlankLine>>
            /\ outcome' = "AttributeError"
            /\ exited' = exited
       ELSE /\ written' = written \o <<ErrorLine(msg)>> \o
                            (IF help_on_error THEN <<BlankLine, usage(cmd)>>
                             ELSE <<>>)
            /\ outcome' = IF errorcode # 0 THEN "SystemExit" ELSE "returned"
            /\ exited' = IF errorcode # 0 THEN <<errorcode>> ELSE <<>>
    /\ UNCHANGED <<scenario, registered, commands, defaultcommand, sysargv,
                   coerced, cmd, test, options, argv, vargs, kwargs,
                   doubledashcnt, singledashcnt, msg, newargs, newkwargs,
                   main, help_on_error, errorcode>>

MainNext ==
    \/ Command
    \/ CallMain
    \/ Parse
    \/ ParseArgsEnter
    \/ DoubleDash
    \/ SingleDash
    \/ LongOption
    \/ ShortOption
    \/ BareToken
    \/ Apply
    \/ Report

MainSpec == Init /\ [][MainNext]_vars

(***************************************************************************)
(* totype called directly, as tests/main.py test_totype calls it: a token  *)
(* and a reference default are drawn, and the call is made.                *)
(***************************************************************************)
\* A default of a type totype does not know, such as baker.Baker().
Object == [t |-> "object", s |-> <<>>, n |-> 0, b |-> FALSE]

TotypeDefaults ==
    {Bool(TRUE), Bool(FALSE), Num(0), Num(42), Num(8888), Str(<<"a">>), Str(<<>>),
     None, Object}

TotypeWords ==
    {<<"t","r","u","e">>, <<"T","r","u","e">>, <<"T","R","U","E">>, <<"t","R","u","E">>,
     <<"y","e","s">>, <<"Y","e","s">>, <<"o","n">>, <<"O","N">>, <<"1">>,
     <<"f","a","l","s","e">>, <<"F","a","l","s","e">>, <<"n","o">>, <<"N","o">>,
     <<"o","f","f">>, <<"O","F","F">>, <<"0">>,
     <<"m","a","y","b","e">>, <<"i","n","v","a","l","i","d">>, <<>>, <<"y">>, <<"t">>,
     <<"2">>, <<"1","0">>, <<"-","5">>, <<"+","7">>, <<" ","1","2">>, <<"1","2"," ">>,
     <<"1","_","0">>, <<"b","a","r">>, <<"0","x","1","0">>, <<"1",".","5">>,
     <<"-","-","1">>, <<"1","e","3">>}

TotypeInit ==
    /\ coerced \in {[NoCall EXCEPT !.v = Str(w), !.default = d] :
                        w \in TotypeWords, d \in TotypeDefaults}
    /\ pc = "totype"
    /\ scenario = DispatchScenario(<<>>, {})
    /\ registered = 0
    /\ commands = EmptyDict
    /\ defaultcommand = None
    /\ sysargv = <<>>
    /\ cmd = None
    /\ options = <<>>
    /\ test = FALSE
    /\ argv = <<>>
    /\ vargs = <<>>
    /\ kwargs = EmptyDict
    /\ doubledashcnt = 0
    /\ singledashcnt = 0
    /\ outcome = "running"
    /\ msg = NoMsg
    /\ newargs = <<>>
    /\ newkwargs = EmptyDict
    /\ main = FALSE
    /\ help_on_error = FALSE
    /\ errorcode = 0
    /\ written = <<>>
    /\ exited = <<>>

\* totype(v, default) returns or raises.
Totype ==
    /\ pc = "totype"
    /\ LET r == totype(coerced.v, coerced.default)
       IN coerced' = [coerced EXCEPT !.exc = r.exc, !.val = r.val]
    /\ pc' = "done"
    /\ UNCHANGED <<scenario, registered, commands, defaultcommand, sysargv, cmd,
                   test, options, argv, vargs, kwargs, doubledashcnt,
                   singledashcnt, outcome, msg, newargs, newkwargs,
                   main, help_on_error, errorcode, written, exited>>

TotypeNext == Totype

TotypeSpec == TotypeInit /\ [][TotypeNext]_vars

(***************************************************************************)
(* Properties                                                              *)
(***************************************************************************)
\* The command's function was called.
Applied == pc = "done" /\ outcome = "applied"

\* The parameters the call binds.
Bound == Bind(cmd, newargs, newkwargs)

\* The long option name of a token.
LongName(arg) ==
    IF contains(arg, "=") THEN SubSeq(arg, 3, find(arg, "=") - 1)
    ELSE SubSeq(arg, 3, Len(arg))

\* The tokenizer is about to take a bare --name whose parameter has a boolean
\* default.
AtBoolLongFlag ==
    /\ pc = "parse_args"
    /\ IsLongOption(Head(argv))
    /\ ~contains(Head(argv), "=")
    /\ LongName(Head(argv)) \in DOMAIN cmd.keywords
    /\ cmd.keywords[LongName(Head(argv))].t = "bool"

\* C1: a bare --name of a parameter with a boolean default stores the negation
\* of that default (True for False, False for True) and takes only its own
\* token from the queue, whatever follows it.
C1_BoolFlagNegatesDefault ==
    [][AtBoolLongFlag =>
        /\ LongName(Head(argv)) \in DOMAIN kwargs'
        /\ kwargs'[LongName(Head(argv))] =
              (IF cmd.keywords[LongName(Head(argv))] = Bool(TRUE)
               THEN Bool(FALSE) ELSE Bool(TRUE))
        /\ argv' = Tail(argv)
        /\ vargs' = vargs
        /\ outcome' = "running"]_vars

\* open(url, xml=False, json=False, use=True) run with ["--use", "u1"]: use is
\* False and "u1" is still the url.
C1_Witness ==
    /\ Applied
    /\ options = <<<<"-","-","u","s","e">>, <<"u","1">>>>
    /\ Bound.params[n_use] = Bool(FALSE)
    /\ Bound.params[n_url] = Str(<<"u","1">>)

\* The parameters without a default that no option named.
UnnamedRequired ==
    SelectSeq(cmd.argnames,
              LAMBDA k : k \notin DOMAIN cmd.keywords /\ k \notin DOMAIN kwargs)

\* C2: with a variadic tail, a keyword parameter gets its named value or else
\* its declared default, never a bare token; the bare tokens left after the
\* required parameters are the tail, in order.
C2_TailKeepsKeywordDefaults ==
    (Applied /\ cmd.has_varargs) =>
        /\ \A k \in DOMAIN cmd.keywords :
              Bound.params[k] =
                  (IF k \in DOMAIN kwargs THEN kwargs[k] ELSE cmd.keywords[k])
        /\ Bound.rest =
              [i \in 1..(Len(vargs) - Len(UnnamedRequired)) |->
                  Str(vargs[Len(UnnamedRequired) + i])]

\* test(a, b=0, *args) run with ["1", "2", "3"]: a = "1", b = 0, args = ("2", "3").
C2_Witness ==
    /\ Applied
    /\ cmd = command(fn_pos_defaulted_args, NoShortopts)
    /\ options = <<t_1, t_2, t_3>>
    /\ Bound.params[n_a] = Str(t_1)
    /\ Bound.params[n_b] = Num(0)
    /\ Bound.rest = <<Str(t_2), Str(t_3)>>

\* The parameters a bare token may fill, in declaration order: those no option
\* named and, when the command has a variadic tail, only the required ones.
UnnamedSlots ==
    SelectSeq(cmd.argnames,
              LAMBDA k : /\ k \notin DOMAIN kwargs
                         /\ (k \notin DOMAIN cmd.keywords \/ ~cmd.has_varargs))

\* C3: a parameter given by name (--name or a short option) has the named
\* value; the bare tokens fill, in declaration order, only the parameters that
\* were not named, and a parameter they do not reach keeps its default.
C3_NamedValueWins ==
    Applied =>
        /\ \A k \in DOMAIN kwargs :
              k \in DOMAIN Bound.params => Bound.params[k] = kwargs[k]
        /\ \A i \in 1..Len(UnnamedSlots) :
              Bound.params[UnnamedSlots[i]] =
                  (IF i <= Len(vargs) THEN Str(vargs[i])
                   ELSE cmd.keywords[UnnamedSlots[i]])

\* test(a="0", *args) with short option a, run with ["2", "-a", "1"]: the named
\* value wins although the bare token comes first.
C3_Witness ==
    /\ Applied
    /\ cmd = command(fn_defaulted_args, AShortopts)
    /\ options = <<t_2, <<"-","a">>, t_1>>
    /\ Bound.params[n_a] = Str(t_1)
    /\ Bound.rest = <<Str(t_2)>>

\* The keyword parameters with a boolean or integer default that a bare token
\* filled, in a command without a variadic tail: [name, token].
BackfilledTyped ==
    IF cmd.has_varargs THEN {}
    ELSE {[name |-> UnnamedSlots[i], token |-> vargs[i]] :
            i \in {j \in 1..Len(UnnamedSlots) :
                     /\ j <= Len(vargs)
                     /\ UnnamedSlots[j] \in DOMAIN cmd.keywords
                     /\ cmd.keywords[UnnamedSlots[j]].t \in {"bool", "int"}}}

\* C4 as claimed: a bare token that fills a keyword parameter reaches the
\* command with the type of the parameter's default.
C4_BackfillCoerced ==
    Applied => \A f \in BackfilledTyped :
                  Bound.params[f.name].t = cmd.keywords[f.name].t

\* C4 amended: a bare token that fills a keyword parameter of a command
\* without a variadic tail reaches the command as the unmodified string,
\* whatever the type of the parameter's default.
C4_BackfillUncoerced ==
    Applied => \A f \in BackfilledTyped : Bound.params[f.name] = Str(f.token)

\* test(a, b=False, c=None) run with ["100", "200"]: b is the string "200".
C4_Witness ==
    /\ Applied
    /\ cmd = command(fn_optional, NoShortopts)
    /\ options = <<t_100, t_200>>
    /\ [name |-> n_b, token |-> t_200] \in BackfilledTyped
    /\ Bound.params[n_b] = Str(t_200)

\* The tokenizer is about to take a short-option cluster whose recognized
\* characters all name keyword parameters.
AtShortCluster ==
    /\ pc = "parse_args"
    /\ IsShortOption(Head(argv), cmd)
    /\ \A k \in DOMAIN cmd.shortopts : k \in DOMAIN cmd.keywords

\* The positions of the cluster arg whose character is a declared short option.
Recognized(arg) ==
    {i \in 2..Len(arg) : \E k \in DOMAIN cmd.shortopts : cmd.shortopts[k] = arg[i]}

\* The parameter a short-option character names.
ShortName(c) == CHOOSE k \in DOMAIN cmd.shortopts : cmd.shortopts[k] = c

\* The position of the first recognized non-boolean character of arg, or
\* Len(arg) + 1 when it has none.
ValueOption(arg) ==
    LET V == {i \in Recognized(arg) : cmd.keywords[ShortName(arg[i])].t # "bool"}
    IN IF V = {} THEN Len(arg) + 1
       ELSE CHOOSE i \in V : \A j \in V : i <= j

\* What a cluster does to the queue and the keyword map: each recognized
\* boolean character before the first non-boolean one stores the negated
\* default; the first non-boolean one takes the rest of the token, or the next
\* token when it is last, and nothing after it is scanned.
ClusterStep(arg, rest) ==
    LET j == ValueOption(arg)
        flags == {ShortName(arg[i]) : i \in {r \in Recognized(arg) : r < j}}
        inside == j < Len(arg)
        text == IF inside THEN SubSeq(arg, j + 1, Len(arg)) ELSE Head(rest)
        valued == IF j <= Len(arg) THEN {ShortName(arg[j])} ELSE {}
        dflt == cmd.keywords[ShortName(arg[j])]
    IN /\ vargs' = vargs
       /\ j > Len(arg) =>
            /\ outcome' = "running"
            /\ argv' = rest
            /\ DOMAIN kwargs' = (DOMAIN kwargs) \cup flags
       /\ (outcome' = "running") =>
            /\ \A k \in flags : kwargs'[k] = Bool(cmd.keywords[k] = Bool(FALSE))
            /\ \A k \in (DOMAIN kwargs') \ (flags \cup valued) :
                  k \in DOMAIN kwargs /\ kwargs'[k] = kwargs[k]
       /\ (j <= Len(arg) /\ (inside \/ rest # <<>>)) =>
            /\ (outcome' = "running") =>
                  argv' = IF inside THEN rest ELSE Tail(rest)
            /\ dflt.t \in {"str", "NoneType"} =>
                  /\ outcome' = "running"
                  /\ kwargs'[ShortName(arg[j])] = Str(text)
            /\ (dflt.t = "int" /\ IntOfStr(text).ok) =>
                  /\ outcome' = "running"
                  /\ kwargs'[ShortName(arg[j])] = Num(IntOfStr(text).n)

\* The example of the test suite: short options a, b, c with c boolean.
ClusterExample ==
    (/\ cmd = command(fn_shortopts, AlfaShortopts)
     /\ options = <<<<"-","a">>, t_100, <<"-","c","b","2","0","0">>>>
     /\ pc \in {"parsed", "done"}) =>
        /\ DOMAIN kwargs = {n_alfa, n_bravo, n_charlie}
        /\ kwargs[n_alfa] = Str(t_100)
        /\ kwargs[n_bravo] = Str(t_200)
        /\ kwargs[n_charlie] = Bool(TRUE)

\* C5: in a short-option cluster a recognized boolean character records the
\* negated default and the scan goes on; a recognized non-boolean character
\* takes the rest of the token (or the next token when it is last) as its
\* value and ends the cluster; ["-a","100","-cb200"] gives a="100", b="200",
\* c=True.
C5_ShortCluster ==
    /\ []ClusterExample
    /\ [][AtShortCluster => ClusterStep(Head(argv), Tail(argv))]_vars

\* test(alfa="1", bravo="2", charlie=False) run with ["-a","100","-cb200"].
C5_Witness ==
    /\ Applied
    /\ options = <<<<"-","a">>, t_100, <<"-","c","b","2","0","0">>>>
    /\ Bound.params[n_alfa] = Str(t_100)
    /\ Bound.params[n_bravo] = Str(t_200)
    /\ Bound.params[n_charlie] = Bool(TRUE)

\* C6: test(a, b=0, *args) registered without short options and run with
\* ["1", "-b", "2"] is called with a = "1", b = 2 and an empty tail.
C6_SingleDashNamesKeyword ==
    (/\ pc = "done"
     /\ ~test
     /\ cmd = command(fn_pos_defaulted_args, NoShortopts)
     /\ options = <<t_1, <<"-","b">>, t_2>>) =>
        /\ outcome = "applied"
        /\ Bound.params[n_a] = Str(t_1)
        /\ Bound.params[n_b] = Num(2)
        /\ Bound.rest = <<>>

\* C7: when the tokenizer takes "--", every token left in the queue is appended
\* to the positional list as it is and in order, the keyword map is left
\* alone, and the pass is over: nothing is classified after it.
C7_DoubleDashEndsOptions ==
    /\ [][(pc = "parse_args" /\ IsDoubleDash(Head(argv))) =>
            /\ vargs' = vargs \o Tail(argv)
            /\ kwargs' = kwargs
            /\ pc' = "parsed"]_vars
    /\ [][pc = "parsed" =>
            /\ vargs' = vargs
            /\ kwargs' = kwargs
            /\ pc' = "done"]_vars

\* test(a, b=0, c=4) with short option b, given ["--", "-b", "--c=-9"]: both
\* option-like tokens are positional and no keyword is set.
C7_Witness ==
    /\ pc = "parsed"
    /\ cmd = command(fn_double_dash, BShortopts)
    /\ options = <<t_dd, <<"-","b">>, <<"-","-","c","=","-","9">>>>
    /\ vargs = <<<<"-","b">>, <<"-","-","c","=","-","9">>>>
    /\ kwargs = EmptyDict

\* C8: an argument list with a second "--" after the one taken as the
\* end-of-options marker is rejected with a CommandError, for every command.
C8_SecondDoubleDashRejected ==
    (/\ pc = "done"
     /\ ~test
     /\ doubledashcnt = 1
     /\ \E i \in 1..Len(vargs) : vargs[i] = t_dd) =>
        outcome = "CommandError"

\* The text after the first "=" of a --name=value token.
ValueText(arg) == SubSeq(arg, find(arg, "=") + 1, Len(arg))

\* v without one matching pair of enclosing quote characters.
StripOnePair(v) ==
    IF Len(v) >= 2 /\ v[1] \in Quotes /\ v[Len(v)] = v[1]
    THEN SubSeq(v, 2, Len(v) - 1) ELSE v

\* C9: --name=value is split at the first "=" and exactly one matching pair of
\* enclosing quotes is removed from the value; every other quote character
\* stays.
C9_OneQuotePairStripped ==
    [][(/\ pc = "parse_args"
        /\ IsLongOption(Head(argv))
        /\ contains(Head(argv), "=")
        /\ DictGet(cmd.keywords, LongName(Head(argv))).t \in {"str", "NoneType"}) =>
            /\ LongName(Head(argv)) \in DOMAIN kwargs'
            /\ kwargs'[LongName(Head(argv))] =
                  Str(StripOnePair(ValueText(Head(argv))))]_vars

\* The tokenizer is about to take a token that does not start with "--" and is
\* not a repeated stdin marker, in a command that declares no short options or
\* with a token that does not start with "-".
AtBareToken ==
    /\ pc = "parse_args"
    /\ ~startswith(Head(argv), <<"-","-">>)
    /\ ~(IsSingleDash(Head(argv)) /\ singledashcnt >= 1)
    /\ (DOMAIN cmd.shortopts = {} \/ ~startswith(Head(argv), <<"-">>))

\* The required parameters that no option named hold the first bare tokens, as
\* the strings they are.
RequiredUncoerced ==
    Applied => \A i \in 1..Len(UnnamedRequired) :
                  /\ i <= Len(vargs)
                  /\ Bound.params[UnnamedRequired[i]] = Str(vargs[i])

TrueSpellings ==
    {<<"t","r","u","e">>, <<"T","r","u","e">>, <<"T","R","U","E">>, <<"t","R","u","E">>,
     <<"y","e","s">>, <<"Y","e","s">>, <<"o","n">>, <<"O","N">>, <<"1">>}
FalseSpellings ==
    {<<"f","a","l","s","e">>, <<"F","a","l","s","e">>, <<"n","o">>, <<"N","o">>,
     <<"o","f","f">>, <<"O","F","F">>, <<"0">>}
IntSpellings ==
    {<< <<"1">>, 1 >>, << <<"0">>, 0 >>, << <<"2">>, 2 >>, << <<"1","0">>, 10 >>,
     << <<"-","5">>, 0 - 5 >>, << <<"+","7">>, 7 >>, << <<" ","1","2">>, 12 >>,
     << <<"1","2"," ">>, 12 >>, << <<"1","_","0">>, 10 >>}
\* The exceptions parse_args takes for a failed coercion.
CoercionErrors == {"TypeError", "ValueError"}

\* C11: the result of totype depends only on the type of the reference
\* default.  A boolean reference, True or False alike, gives true for
\* true/yes/on/1 and false for false/no/off/0 in any letter case and a
\* coercion error for every other token; an integer reference gives the
\* base-10 integer the token spells or a coercion error; a string, None or
\* unknown-type reference gives the token back unchanged and never an error.
C11_TotypeByReferenceType ==
    (pc = "done" /\ coerced # NoCall) =>
        LET w == coerced.v.s
            t == coerced.default.t
        IN /\ t = "bool" =>
                IF w \in TrueSpellings
                THEN coerced.exc = "none" /\ coerced.val = Bool(TRUE)
                ELSE IF w \in FalseSpellings
                THEN coerced.exc = "none" /\ coerced.val = Bool(FALSE)
                ELSE coerced.exc \in CoercionErrors
           /\ t = "int" =>
                IF \E p \in IntSpellings : p[1] = w
                THEN /\ coerced.exc = "none"
                     /\ \E p \in IntSpellings : p[1] = w /\ coerced.val = Num(p[2])
                ELSE coerced.exc \in CoercionErrors
           /\ t \notin {"bool", "int"} =>
                coerced.exc = "none" /\ coerced.val = coerced.v
           /\ \A d \in TotypeDefaults :
                d.t = t => totype(coerced.v, d) =
                               [exc |-> coerced.exc, val |-> coerced.val]

\* totype("Yes", False) has returned True.
C11_Witness ==
    /\ pc = "done"
    /\ coerced.v = Str(<<"Y","e","s">>)
    /\ coerced.default = Bool(FALSE)
    /\ coerced.exc = "none"
    /\ coerced.val = Bool(TRUE)

\* The named option the tokenizer is about to take, when it comes with a text
\* to convert: --name=text, --name text for a non-boolean parameter, or the
\* first non-boolean short option of a cluster with the rest of the token or
\* the next token.  Empty when the token at the head is nothing of the kind.
ConvertedAtHead ==
    LET arg == Head(argv)
        rest == Tail(argv)
        j == ValueOption(arg)
    IN IF IsLongOption(arg)
       THEN IF contains(arg, "=")
            THEN {[name |-> LongName(arg), text |-> StripQuotes(ValueText(arg))]}
            ELSE IF /\ DictGet(cmd.keywords, LongName(arg)).t # "bool"
                    /\ rest # <<>>
                    /\ ~startswith(Head(rest), <<"-">>)
                 THEN {[name |-> LongName(arg), text |-> Head(rest)]}
                 ELSE {}
       ELSE IF IsShortOption(arg, cmd)
       THEN IF j < Len(arg)
            THEN {[name |-> ShortName(arg[j]), text |-> SubSeq(arg, j + 1, Len(arg))]}
            ELSE IF j = Len(arg) /\ rest # <<>>
            THEN {[name |-> ShortName(arg[j]), text |-> Head(rest)]}
            ELSE {}
       ELSE {}

\* The text of option o cannot be converted to the type of its default.
Unconvertible(o) ==
    totype(Str(o.text), DictGet(cmd.keywords, o.name)).exc \in CoercionErrors

\* C12: in normal mode a named option whose value cannot be converted to the
\* type of the parameter's default ends the parse with a CommandError that
\* names the parameter, the offending text and the expected type, and nothing
\* follows the error: the command's function is not called.
C12_BadValueIsCommandError ==
    /\ [][(pc = "parse_args" /\ ~test) =>
            \A o \in ConvertedAtHead :
                Unconvertible(o) =>
                    /\ pc' = "done"
                    /\ outcome' = "CommandError"
                    /\ msg' = [kind |-> "must be", name |-> o.name,
                               value |-> Str(o.text),
                               type |-> DictGet(cmd.keywords, o.name).t]]_vars
    /\ [][outcome = "CommandError" => outcome' = "CommandError"]_vars

\* test_errors: test(times=10) run with ["s", "test", "--times", "bar"].
C12_Witness ==
    /\ pc = "done"
    /\ ~test
    /\ sysargv = <<scriptname, n_test, <<"-","-","t","i","m","e","s">>, <<"b","a","r">>>>
    /\ outcome = "CommandError"
    /\ msg = [kind |-> "must be", name |-> n_times, value |-> Str(<<"b","a","r">>),
              type |-> "int"]

\* C13: when the parse has ended and the bare tokens do not reach every
\* required parameter that no option named, dispatch fails with the
\* CommandError "Required argument ... not given" for the first parameter
\* left unfilled, and the command's function is not called.
C13_RequiredArgumentMissing ==
    /\ [][(pc = "parsed" /\ ~test /\ Len(UnnamedRequired) > Len(vargs)) =>
            /\ pc' = "done"
            /\ outcome' = "CommandError"
            /\ msg' = [NoMsg EXCEPT !.kind = "Required argument",
                                    !.name = UnnamedRequired[Len(vargs) + 1]]]_vars
    /\ [][pc = "done" => pc' = "done" /\ outcome' = outcome]_vars

\* test_errors: foo(reqd) run with ["s", "foo"].
C13_Witness ==
    /\ pc = "done"
    /\ ~test
    /\ sysargv = <<scriptname, n_foo>>
    /\ outcome = "CommandError"
    /\ msg = [NoMsg EXCEPT !.kind = "Required argument", !.name = n_reqd]

\* The bare tokens the declared parameters leave unconsumed.
Unconsumed == SubSeq(vargs, Len(UnnamedSlots) + 1, Len(vargs))

\* C14: when every declared parameter has been processed and bare tokens are
\* still unconsumed, a command without a variadic tail fails with the
\* CommandError "Too many arguments" and is not called; a command with a
\* variadic tail gets exactly those tokens, in order, as its tail.
C14_TooManyArguments ==
    /\ [][(/\ pc = "parsed" /\ ~test
           /\ Len(UnnamedRequired) <= Len(vargs)
           /\ Unconsumed # <<>>) =>
            /\ pc' = "done"
            /\ ~cmd.has_varargs =>
                  /\ outcome' = "CommandError"
                  /\ msg' = [NoMsg EXCEPT !.kind = "Too many arguments"]
            /\ cmd.has_varargs =>
                  /\ outcome' \in {"applied", "CommandError"}
                  /\ outcome' = "CommandError" => msg'.kind = "Unknown option"
                  /\ Bind(cmd, newargs', newkwargs').rest =
                        [i \in 1..Len(Unconsumed) |-> Str(Unconsumed[i])]]_vars
    /\ [][pc = "done" => pc' = "done" /\ outcome' = outcome /\ newargs' = newargs]_vars

\* test(times=10) of test_errors run with ["s", "test", "1", "bar"]: "1" fills
\* times and "bar" is one too many.
C14_Witness ==
    /\ pc = "done"
    /\ ~test
    /\ sysargv = <<scriptname, n_test, t_1, <<"b","a","r">>>>
    /\ cmd = command(fn_times, NoShortopts)
    /\ outcome = "CommandError"
    /\ msg = [NoMsg EXCEPT !.kind = "Too many arguments"]

\* The named options of the parse whose name is not a declared parameter.
UndeclaredOptions == (DOMAIN kwargs) \ {cmd.argnames[i] : i \in 1..Len(cmd.argnames)}

\* The declared parameters are processed without error: no required one is
\* missing and no bare token is one too many.
ParametersFit ==
    /\ Len(UnnamedRequired) <= Len(vargs)
    /\ (Unconsumed = <<>> \/ cmd.has_varargs)

\* C15: a named option whose name is not a declared parameter makes dispatch
\* fail with a CommandError and the function is not called; the error is
\* "Unknown option", naming such an option, once the declared parameters have
\* been processed without error.  A command with an open keyword bag is called
\* instead, with every such entry as a named argument, its value unchanged.
C15_UnknownOption ==
    /\ [][(pc = "parsed" /\ ~test /\ UndeclaredOptions # {}) =>
            /\ pc' = "done"
            /\ ~cmd.has_kwargs =>
                  /\ outcome' = "CommandError"
                  /\ ParametersFit =>
                        /\ msg'.kind = "Unknown option"
                        /\ msg'.name \in UndeclaredOptions
            /\ (cmd.has_kwargs /\ ParametersFit) =>
                  /\ outcome' = "applied"
                  /\ Bind(cmd, newargs', newkwargs').bag =
                        [k \in UndeclaredOptions |-> kwargs[k]]]_vars
    /\ [][pc = "done" => pc' = "done" /\ outcome' = outcome /\ newkwargs' = newkwargs]_vars

\* test_errors: test(times=10) run with ["s", "test", "--blah"].
C15_Witness ==
    /\ pc = "done"
    /\ ~test
    /\ sysargv = <<scriptname, n_test, <<"-","-","b","l","a","h">>>>
    /\ cmd = command(fn_times, NoShortopts)
    /\ outcome = "CommandError"
    /\ msg = [NoMsg EXCEPT !.kind = "Unknown option", !.name = <<"b","l","a","h">>]

\* The ways a dispatch may end for its caller.
StructuredOutcomes == {"applied", "TopHelp", "CommandHelp", "CommandError"}

\* C16: every run(argv, main=False) ends with the command applied, with
\* top-level help, with command help or with a CommandError; no assertion
\* fails, no token is popped from an empty queue and no lookup fails.
C16_OnlyStructuredOutcomes ==
    (pc = "done" /\ ~test) => outcome \in StructuredOutcomes

\* C17: in test mode an option value that fails coercion raises nothing, and
\* the raw string is stored in the keyword map under the option's name, for a
\* long option and for a short option alike.
C17_LenientKeepsRawString ==
    [][(pc = "parse_args" /\ test) =>
        \A o \in ConvertedAtHead :
            Unconvertible(o) =>
                /\ outcome' = "running"
                /\ o.name \in DOMAIN kwargs'
                /\ kwargs'[o.name] = Str(o.text)]_vars

\* The error apply raises in normal mode for the positional list and the
\* keyword map of the parse ("" when it raises none).
ReconcileError ==
    IF Len(UnnamedRequired) > Len(vargs) THEN "Required argument"
    ELSE IF Unconsumed # <<>> /\ ~cmd.has_varargs THEN "Too many arguments"
    ELSE IF UndeclaredOptions # {} /\ ~cmd.has_kwargs THEN "Unknown option"
    ELSE ""

\* C18: Baker.test suppresses coercion failures only: it shows a call only
\* for an argument list that normal mode does not refuse with "Required
\* argument", "Too many arguments" or "Unknown option", and it fails with
\* "No command specified" when no command can be selected.
C18_LenientFailsAlike ==
    /\ (pc = "done" /\ test /\ outcome = "tested") => ReconcileError = ""
    /\ (pc = "done" /\ test /\ cmd = None /\ outcome \notin {"TopHelp", "CommandHelp"}) =>
            (outcome = "CommandError" /\ msg.kind = "No command specified")

\* C19: when argv holds only the program name, a registered default command
\* is the command selected, it gets no options and is applied with every
\* keyword parameter at its declared default; without a default command the
\* outcome is top-level help.
C19_NoArguments ==
    /\ [][(pc = "run" /\ sysargv = <<scriptname>>) =>
            IF defaultcommand # None
            THEN pc' = "parse" /\ cmd' = defaultcommand /\ options' = <<>>
            ELSE pc' = "done" /\ outcome' = "TopHelp"]_vars
    /\ [][(pc = "parsed" /\ ~test /\ cmd = defaultcommand /\ options = <<>>) =>
            /\ outcome' = "applied"
            /\ newargs' = <<>>
            /\ Bind(cmd, newargs', newkwargs').params = cmd.keywords]_vars

\* C20: when the first token after the program name is -h or --help the
\* outcome is top-level help, default command or not; when it is the word
\* help the outcome is command help for the token after it if that is a
\* registered command name, and top-level help otherwise.  Nothing follows
\* the help outcome: no command function is called.
C20_HelpRequests ==
    /\ [][(pc = "run" /\ Len(sysargv) >= 2) =>
            /\ sysargv[2] \in {<<"-","h">>, <<"-","-","h","e","l","p">>} =>
                  pc' = "done" /\ outcome' = "TopHelp"
            /\ sysargv[2] = <<"h","e","l","p">> =>
                  /\ pc' = "done"
                  /\ IF Len(sysargv) >= 3 /\ sysargv[3] \in DOMAIN commands
                     THEN outcome' = "CommandHelp" /\ cmd' = commands[sysargv[3]]
                     ELSE outcome' = "TopHelp"]_vars
    /\ [][(outcome = "TopHelp" \/ outcome = "CommandHelp") =>
            pc' = "done" /\ outcome' = outcome /\ cmd' = cmd]_vars

\* build_baker's registry, where main is the default command, run with
\* ["s", "help", "open"]: command help for open.
C20_Witness ==
    /\ pc = "done"
    /\ sysargv = <<scriptname, n_help, n_open>>
    /\ defaultcommand = command(fn_main, NoShortopts)
    /\ outcome = "CommandHelp"
    /\ cmd = command(fn_open, OpenShortopts)

\* The words parse tests the first token against before it looks for a command.
HelpWords == {<<"-","h">>, <<"-","-","h","e","l","p">>, <<"h","e","l","p">>}

\* C21: when the first token is a registered command name and the token right
\* after it is -h or --help, the dispatcher yields command help for that
\* command whatever follows the flag; no token has been handed to the
\* tokenizer and the command is not called.  (A first token that is itself a
\* help flag or the word help is C20's case.)
C21_CommandHelpFlag ==
    /\ [][(/\ pc = "run" /\ Len(sysargv) >= 3
           /\ sysargv[2] \in DOMAIN commands
           /\ sysargv[2] \notin HelpWords
           /\ sysargv[3] \in {<<"-","h">>, <<"-","-","h","e","l","p">>}) =>
            /\ pc' = "done"
            /\ outcome' = "CommandHelp"
            /\ cmd' = commands[sysargv[2]]
            /\ argv' = <<>> /\ vargs' = <<>> /\ kwargs' = EmptyDict]_vars
    /\ [][outcome = "CommandHelp" =>
            /\ pc' = "done" /\ outcome' = outcome
            /\ argv' = argv /\ vargs' = vargs /\ kwargs' = kwargs]_vars

\* build_baker's registry run with ["s", "open", "--help", "9"].
C21_Witness ==
    /\ pc = "done"
    /\ sysargv = <<scriptname, n_open, t_help, <<"9">>>>
    /\ outcome = "CommandHelp"
    /\ cmd = command(fn_open, OpenShortopts)

\* The names the script's b.command calls made so far register: name= when
\* the call gives one, the function's name otherwise.
NamesRegistered ==
    {IF scenario.script[i].name # <<>> THEN scenario.script[i].name
     ELSE scenario.script[i].fn.name : i \in 1..registered}

\* C22: the command names are exactly the names registered (an alias given
\* with name= is one, the function's own name then is not).  When the first
\* token is no help flag, not the word help and no command name, the default
\* command, if there is one, is selected and every token after the program
\* name, the first included, is handed to it; without a default command
\* dispatch fails with the CommandError "No command specified".
C22_DefaultTakesAllTokens ==
    /\ [](DOMAIN commands = NamesRegistered)
    /\ [][(/\ pc = "run" /\ Len(sysargv) >= 2
           /\ sysargv[2] \notin HelpWords
           /\ sysargv[2] \notin NamesRegistered) =>
            IF defaultcommand # None
            THEN /\ pc' = "parse"
                 /\ cmd' = defaultcommand
                 /\ options' = Tail(sysargv)
            ELSE /\ pc' = "done"
                 /\ outcome' = "CommandError"
                 /\ msg' = [NoMsg EXCEPT !.kind = "No command specified"]]_vars
    /\ [][pc = "parse" => pc' \in {"parse_args", "parsed"} /\ argv' = options]_vars

\* test_alias: trackall registered as track-all, run with ["s", "trackall"].
C22_Witness ==
    /\ pc = "done"
    /\ DOMAIN commands = {n_track_all}
    /\ sysargv = <<scriptname, n_trackall>>
    /\ outcome = "CommandError"
    /\ msg = [NoMsg EXCEPT !.kind = "No command specified"]

\* The tokenizer is about to take a --name without "=" whose parameter has no
\* boolean default.
AtValueLongOption ==
    /\ pc = "parse_args"
    /\ IsLongOption(Head(argv))
    /\ ~contains(Head(argv), "=")
    /\ DictGet(cmd.keywords, LongName(Head(argv))).t # "bool"

\* C24: a --name without "=" whose default is not boolean stores the boolean
\* True, whatever the type of the default, when no token follows or the next
\* token starts with "-", and leaves that token in the queue to be classified
\* on its own; otherwise it takes exactly the next token as its value.
C24_BareLongOption ==
    [][AtValueLongOption =>
        LET name == LongName(Head(argv))
            rest == Tail(argv)
        IN IF rest = <<>> \/ startswith(Head(rest), <<"-">>)
           THEN /\ outcome' = "running"
                /\ argv' = rest
                /\ kwargs'[name] = Bool(TRUE)
           ELSE /\ argv' = Tail(rest)
                /\ outcome' = "running" =>
                      kwargs'[name] \in
                          {Str(Head(rest)),
                           totype(Str(Head(rest)), DictGet(cmd.keywords, name)).val}]_vars

\* C25: the first lone "-" the tokenizer meets is appended to the positional
\* list as the token "-"; a second one in the same argument list ends the
\* parse with a parse error (a CommandError) and no result.
C25_StdinMarkerOnce ==
    [][(pc = "parse_args" /\ Head(argv) = <<"-">>) =>
        IF singledashcnt = 0
        THEN /\ vargs' = Append(vargs, <<"-">>)
             /\ argv' = Tail(argv)
             /\ kwargs' = kwargs
             /\ outcome' = "running"
        ELSE /\ pc' = "done"
             /\ outcome' = "CommandError"]_vars

\* The cluster arg without the characters before its value option that are
\* no short option of the command.
Declared(arg) ==
    LET keep == {1} \cup Recognized(arg) \cup ValueOption(arg)..Len(arg)
        F[i \in 0..Len(arg)] ==
            IF i = 0 THEN <<>>
            ELSE IF i \in keep THEN Append(F[i - 1], arg[i]) ELSE F[i - 1]
    IN F[Len(arg)]

\* C26: for a command that declares short options, a character of a
\* single-dash token that is not in the short-option table is passed over
\* without error: the token does to the keyword map, the positional list and
\* the queue what it does without those characters, and a token made only of
\* such characters leaves the keyword map and the positional list as they were.
C26_UnknownShortSkipped ==
    [][AtShortCluster =>
        LET arg == Head(argv)
            r == ShortOptionScan(Declared(arg), 2, Tail(argv), kwargs, cmd, test)
        IN /\ vargs' = vargs
           /\ kwargs' = r.kwargs
           /\ argv' = r.argv
           /\ outcome' = (IF r.exc = "none" THEN "running" ELSE r.exc)
           /\ Recognized(arg) = {} =>
                 /\ kwargs' = kwargs
                 /\ argv' = Tail(argv)
                 /\ outcome' = "running"]_vars

\* open(url, xml=False, json=False, use=True) with short options x and u, run
\* with ["-q", "u1"]: -q names nothing and the call is open("u1").
C26_Witness ==
    /\ Applied
    /\ cmd = command(fn_open, OpenShortopts)
    /\ options = <<<<"-","q">>, <<"u","1">>>>
    /\ kwargs = EmptyDict
    /\ Bound.params[n_url] = Str(<<"u","1">>)
    /\ Bound.params[n_xml] = Bool(FALSE)

\* C27: when the tokenizer takes a named option that the keyword map already
\* holds (a later occurrence of the same option, long or short) and goes on,
\* the map holds under that name the value of this occurrence: the converted
\* text, or the text itself where lenient mode keeps it.
C27_LastOccurrenceWins ==
    [][pc = "parse_args" =>
        \A o \in ConvertedAtHead :
            (o.name \in DOMAIN kwargs /\ outcome' = "running") =>
                /\ o.name \in DOMAIN kwargs'
                /\ kwargs'[o.name] =
                      (IF Unconvertible(o) THEN Str(o.text)
                       ELSE totype(Str(o.text), DictGet(cmd.keywords, o.name)).val)]_vars

\* One iteration of `while argv:`.
LoopIteration == DoubleDash \/ SingleDash \/ LongOption \/ ShortOption \/ BareToken

\* parse_args runs on: while the loop can make an iteration it makes one.
LiveSpec == Spec /\ WF_vars(LoopIteration)

\* s can be had from t by leaving elements out.
RECURSIVE IsSubsequence(_, _)
IsSubsequence(s, t) ==
    IF s = <<>> THEN TRUE
    ELSE IF t = <<>> THEN FALSE
    ELSE IF Head(s) = Head(t) THEN IsSubsequence(Tail(s), Tail(t))
    ELSE IsSubsequence(s, Tail(t))

\* q is what is left of t after at least one element was taken from its front.
IsShorterSuffix(q, t) ==
    /\ Len(q) < Len(t)
    /\ q = SubSeq(t, Len(t) - Len(q) + 1, Len(t))

\* C28: the tokenizer's loop ends for every token list: each iteration takes
\* at least one token from the front of the queue and puts none on it, a
\* started loop reaches its end or raises, and the positional list is at
\* every moment the tokens of the input with some left out, in their order.
C28_TokenizerTerminates ==
    /\ [][pc = "parse_args" => IsShorterSuffix(argv', argv)]_vars
    /\ [](IsSubsequence(argv, options) /\ IsSubsequence(vargs, options))
    /\ (pc = "parse_args" ~> (pc = "parsed" \/ pc = "done"))

\* test(a, b=0, c=4) with short option b, tokens ["-b", "7", "6"]: the loop
\* has ended with the queue empty and "6" as the only positional.
C28_Witness ==
    /\ pc = "parsed"
    /\ cmd = command(fn_double_dash, BShortopts)
    /\ options = <<<<"-","b">>, <<"7">>, <<"6">>>>
    /\ argv = <<>>
    /\ vargs = <<<<"6">>>>

\* C29: a dispatch leaves the caller's argument vector as it was: the step
\* of parse, whether it returns or raises, does not change the list that was
\* passed in.
C29_ArgvUnchanged ==
    [][pc = "run" => sysargv' = sysargv]_vars

\* C30: after any sequence of registrations the default command is unset or
\* is the descriptor the registry holds under the default's own name.
C30_DefaultIsRegistered ==
    \/ defaultcommand = None
    \/ /\ defaultcommand.name \in DOMAIN commands
       /\ commands[defaultcommand.name] = defaultcommand

\* What a step has added to the files.
NewlyWritten == SubSeq(written', Len(written) + 1, Len(written'))

\* C23: when run(main=True, help_on_error=True) ends a dispatch that failed
\* with a CommandError, the error message goes to the error file, the usage
\* help of the offending command (the top-level help when no command is
\* known) is printed after it, and then the exit code is applied.
C23_HelpOnError ==
    [][(pc = "done" /\ main /\ help_on_error /\ outcome = "CommandError") =>
        /\ Len(NewlyWritten) >= 2
        /\ NewlyWritten[1] = ErrorLine(msg)
        /\ NewlyWritten[Len(NewlyWritten)] = usage(cmd)
        /\ exited' = (IF errorcode # 0 THEN <<errorcode>> ELSE <<>>)]_vars

====
